---------------------------- MODULE Spec2Model ----------------------------
(***************************************************************************)
(* A model of the three "Code Nexus" scripts:                              *)
(*   ex0/stream_processor.py  NumericProcessor, TextProcessor, LogProcessor*)
(*   ex1/data_stream.py       SensorStream, TransactionStream, EventStream *)
(*   ex2/nexus_pipeline.py    stages, the three adapters, NexusManager     *)
(*                                                                         *)
(* The scripts share no state, so each gets a specification of its own     *)
(* (SpecProc, SpecStream, SpecPipe) over its own variables; the variables  *)
(* of the other two scripts stay at their initial values.                  *)
(*                                                                         *)
(* Python values are records tagged by type: an int is [t, n], a str is    *)
(* [t, s] with s the sequence of its pieces (single characters in ex0 and  *)
(* ex1, where the code looks at characters; whole lexical pieces such as   *)
(* "Error:" in ex2, where the code only looks for that marker), a list is  *)
(* [t, xs], a dict with one entry is [t, k, v], None is [t].               *)
(***************************************************************************)
EXTENDS Integers, Sequences, FiniteSets, TLC

VARIABLES
    inp,        \* ex0: the value handed to a processor
    out,        \* ex0: what the last process call returned or raised
    stream,     \* ex1: the stream object (its kind and its fields)
    hist,       \* ex1: history of the process_batch calls made on the stream
    sres,       \* ex1: the last call on the stream and what it returned
    pipes,      \* ex2: the pipeline objects created so far
    pipelines,  \* ex2: NexusManager.pipelines, as indices into pipes
    last        \* ex2: the last call, what it returned, what it invoked

vars == <<inp, out, stream, hist, sres, pipes, pipelines, last>>

procVars == <<inp, out>>
streamVars == <<stream, hist, sres>>
pipeVars == <<pipes, pipelines, last>>

(***************************************************************************)
(* Python values                                                           *)
(***************************************************************************)
PyInt(n) == [t |-> "int", n |-> n]
PyStr(s) == [t |-> "str", s |-> s]
PyList(xs) == [t |-> "list", xs |-> xs]
PyDict(k, v) == [t |-> "dict", k |-> k, v |-> v]
PyNone == [t |-> "none"]

Min(a, b) == IF a < b THEN a ELSE b

\* All sequences over S of length at most n.
SeqsUpTo(S, n) == UNION {[1..k -> S] : k \in 0..n}

\* data[:n] and data[n:] of a str or list.
SliceTo(s, n) == SubSeq(s, 1, Min(n, Len(s)))
SliceFrom(s, n) == SubSeq(s, n + 1, Len(s))

\* A raised exception, as the caller of process sees it.
Raised(proc, exc, msg) == [proc |-> proc, ok |-> FALSE, exc |-> exc, msg |-> msg]

(***************************************************************************)
(* ex0: NumericProcessor                                                   *)
(***************************************************************************)
\* `x + 0` succeeds for a number and raises TypeError for a str, list or None.
AddZeroOk(x) == x.t = "int"

\* `for number in data` works on a list and on a str (its characters) and
\* raises TypeError on an int and on None.
Iterable(data) == data.t \in {"list", "str"}
Items(data) == IF data.t = "list" THEN data.xs
               ELSE [i \in 1..Len(data.s) |-> PyStr(<<data.s[i]>>)]

NumericValidate(data) ==
    IF Iterable(data) /\ \A i \in 1..Len(Items(data)) : AddZeroOk(Items(data)[i])
    THEN TRUE
    ELSE AddZeroOk(data)

RECURSIVE SumFrom(_, _, _)
\* `for number in numbers: total += number`, from index i on.
SumFrom(numbers, i, total) ==
    IF i > Len(numbers) THEN total
    ELSE SumFrom(numbers, i + 1, total + numbers[i].n)

NumericProcess(data) ==
    IF ~NumericValidate(data)
    THEN Raised("numeric", "ValueError", "Invalid numeric data")
    ELSE LET numbers == IF Iterable(data) THEN Items(data) ELSE <<data>>
             count == Len(numbers)
             total == SumFrom(numbers, 1, 0)
         IN IF count = 0
            THEN Raised("numeric", "ZeroDivisionError", "division by zero")
            ELSE [proc |-> "numeric", ok |-> TRUE, count |-> count,
                  total |-> total,
                  \* avg = total / count, kept exact as quotient and remainder
                  avg_q |-> total \div count, avg_r |-> total % count]

(***************************************************************************)
(* ex0: TextProcessor                                                      *)
(***************************************************************************)
\* `data + ""` succeeds for a str only.
TextValidate(data) == data.t = "str"

\* One iteration of the loop over the characters.
TextStepNoTab(st, char) ==
    [char_count |-> st.char_count + 1,
     word_count |-> IF ~(char = " " \/ char = "\n") /\ ~st.in_word
                    THEN st.word_count + 1 ELSE st.word_count,
     in_word |-> ~(char = " " \/ char = "\n")]

TextStep(st, char) ==
    IF char = " " \/ char = "\t" \/ char = "\n"
    THEN [st EXCEPT !.in_word = FALSE, !.char_count = @ + 1]
    ELSE IF ~st.in_word
    THEN [st EXCEPT !.word_count = @ + 1, !.in_word = TRUE, !.char_count = @ + 1]
    ELSE [st EXCEPT !.char_count = @ + 1]

RECURSIVE TextLoop(_, _, _)
TextLoop(s, i, st) ==
    IF i > Len(s) THEN st ELSE TextLoop(s, i + 1, TextStep(st, s[i]))

TextProcess(data) ==
    IF ~TextValidate(data)
    THEN Raised("text", "ValueError", "Invalid text data")
    ELSE LET st == TextLoop(data.s, 1,
                     [char_count |-> 0, word_count |-> 0, in_word |-> FALSE])
         IN [proc |-> "text", ok |-> TRUE,
             char_count |-> st.char_count, word_count |-> st.word_count]

(***************************************************************************)
(* ex0: LogProcessor                                                       *)
(***************************************************************************)
ERROR == <<"E", "R", "R", "O", "R">>
WARNING == <<"W", "A", "R", "N", "I", "N", "G">>
INFO == <<"I", "N", "F", "O">>

LogValidateShortWarning(data) ==
    IF data.t # "str" THEN FALSE
    ELSE SliceTo(data.s, 5) = ERROR \/ SliceTo(data.s, 4) = SliceTo(WARNING, 4)
         \/ SliceTo(data.s, 4) = INFO

LogValidate(data) ==
    IF data.t # "str" THEN FALSE
    ELSE SliceTo(data.s, 5) = ERROR \/ SliceTo(data.s, 7) = WARNING
         \/ SliceTo(data.s, 4) = INFO

\* The returned text is the f-string's pieces: the tag, the fixed words, then
\* the characters of the slice.
LogProcess(data) ==
    IF ~LogValidate(data)
    THEN Raised("log", "ValueError", "Invalid log entry")
    ELSE [proc |-> "log", ok |-> TRUE,
          text |-> IF SliceTo(data.s, 5) = ERROR
                   THEN <<"[ALERT]", " ERROR level detected:">> \o SliceFrom(data.s, 6)
                   ELSE IF SliceTo(data.s, 7) = WARNING
                   THEN <<"[WARNING]", " WARNING level detected:">> \o SliceFrom(data.s, 8)
                   ELSE <<"[INFO]", " INFO level detected:">> \o SliceFrom(data.s, 5)]

(***************************************************************************)
(* ex0: inputs and the specification                                       *)
(***************************************************************************)
MaxTextLen == 3
MaxTail == 2
MaxList == 2

TextChars == {"a", "b", " ", "\t", "\n"}
HelloNexusWorld == <<"H", "e", "l", "l", "o", " ", "N", "e", "x", "u", "s", " ",
                     "W", "o", "r", "l", "d">>
TextInputs == {PyStr(s) : s \in SeqsUpTo(TextChars, MaxTextLen) \cup {HelloNexusWorld}}

LogHeads == {ERROR, WARNING, INFO, SliceTo(ERROR, 4), SliceTo(WARNING, 4),
             SliceTo(INFO, 3), <<"e", "r", "r", "o", "r">>, <<" ">> \o INFO,
             <<"D", "E", "B", "U", "G">>}
LogInputs == {PyStr(h \o tl) : h \in LogHeads, tl \in SeqsUpTo({":", " ", "x"}, MaxTail)}

NumItems == {PyInt(n) : n \in {-2, 0, 1, 3}} \cup {PyStr(<<"a">>)}
NumInputs == {PyInt(n) : n \in {-2, 0, 1, 3}}
             \cup {PyList(xs) : xs \in SeqsUpTo(NumItems, MaxList)}
             \cup {PyNone}

ProcInputs == TextInputs \cup LogInputs \cup NumInputs

NoOut == [proc |-> "none"]
NoStream == [kind |-> "none"]
NoCall == [op |-> "none"]
NoHist == [fed |-> 0]

RunNumeric == out' = NumericProcess(inp) /\ UNCHANGED <<inp, streamVars, pipeVars>>
RunText == out' = TextProcess(inp) /\ UNCHANGED <<inp, streamVars, pipeVars>>
RunLog == out' = LogProcess(inp) /\ UNCHANGED <<inp, streamVars, pipeVars>>

InitProc ==
    /\ inp \in ProcInputs
    /\ out = NoOut
    /\ stream = NoStream /\ hist = NoHist /\ sres = NoCall
    /\ pipes = <<>> /\ pipelines = <<>> /\ last = NoCall

NextProc == RunNumeric \/ RunText \/ RunLog

SpecProc == InitProc /\ [][NextProc]_vars

(***************************************************************************)
(* ex0: claims                                                             *)
(***************************************************************************)
EmptySequence(data) == (data.t = "list" /\ data.xs = <<>>) \/ (data.t = "str" /\ data.s = <<>>)

\* C6: whenever NumericProcessor.validate accepts the input, process reaches the
\* mean with count >= 1 and returns a summary; process fails only with the
\* invalid-input error of a rejected input; an empty sequence is rejected.
C6_NeverDividesByZero ==
    out.proc = "numeric" =>
        /\ NumericValidate(inp) => (out.ok /\ out.count >= 1)
        /\ ~out.ok => (out.exc = "ValueError" /\ ~NumericValidate(inp))
        /\ EmptySequence(inp) => ~NumericValidate(inp)

\* Whitespace as the specification lists it.
Whitespace == {" ", "\t", "\n"}
\* The number of maximal runs of non-whitespace characters: one per position
\* that starts a run.
WordRuns(s) ==
    Cardinality({i \in 1..Len(s) :
        s[i] \notin Whitespace /\ (i = 1 \/ s[i - 1] \in Whitespace)})

\* C7: for every text input TextProcessor.process reports the input's length as
\* character count and the number of maximal non-whitespace runs as word count
\* ('Hello Nexus World': 17 and 3; no words in an empty or all-whitespace text).
C7_TextCounts ==
    (out.proc = "text" /\ inp.t = "str") =>
        /\ out.ok
        /\ out.char_count = Len(inp.s)
        /\ out.word_count = WordRuns(inp.s)
        /\ inp.s = HelloNexusWorld => (out.char_count = 17 /\ out.word_count = 3)
        /\ (\A i \in 1..Len(inp.s) : inp.s[i] \in Whitespace) => out.word_count = 0

C7_Witness ==
    out.proc = "text" /\ inp.t = "str" /\ inp.s = HelloNexusWorld /\ out.word_count = 3

StartsWith(s, p) == Len(s) >= Len(p) /\ \A i \in 1..Len(p) : s[i] = p[i]

\* C8: LogProcessor.validate is true exactly for a string beginning with ERROR,
\* WARNING or INFO; process tags such a string [ALERT], [WARNING] or [INFO]
\* by its prefix, and fails with the invalid-input error on anything else.
C8_LogClassify ==
    out.proc = "log" =>
        /\ LogValidate(inp) <=>
              (inp.t = "str" /\ (StartsWith(inp.s, ERROR) \/ StartsWith(inp.s, WARNING)
                                 \/ StartsWith(inp.s, INFO)))
        /\ (inp.t = "str" /\ StartsWith(inp.s, ERROR)) => (out.ok /\ Head(out.text) = "[ALERT]")
        /\ (inp.t = "str" /\ StartsWith(inp.s, WARNING)) => (out.ok /\ Head(out.text) = "[WARNING]")
        /\ (inp.t = "str" /\ StartsWith(inp.s, INFO)) => (out.ok /\ Head(out.text) = "[INFO]")
        /\ ~LogValidate(inp) => (~out.ok /\ out.exc = "ValueError" /\ out.msg = "Invalid log entry")

C8_Witness ==
    /\ out.proc = "log" /\ inp.t = "str" /\ StartsWith(inp.s, WARNING)
    /\ out.ok /\ Head(out.text) = "[WARNING]"

(***************************************************************************)
(* ex1: str operations the streams use                                     *)
(***************************************************************************)
TEMP == <<"t", "e", "m", "p", ":">>
BUY == <<"b", "u", "y", ":">>
SELL == <<"s", "e", "l", "l", ":">>
COLON == <<":">>
ERRORTOKEN == <<"e", "r", "r", "o", "r">>

Digits == <<"0", "1", "2", "3", "4", "5", "6", "7", "8", "9">>
IsDigit(c) == \E i \in 1..Len(Digits) : Digits[i] = c
DigitVal(c) == (CHOOSE i \in 1..Len(Digits) : Digits[i] = c) - 1

RECURSIVE FindSub(_, _, _)
\* The first index at or after i where sub occurs in s, or 0.
FindSub(s, sub, i) ==
    IF i + Len(sub) - 1 > Len(s) THEN 0
    ELSE IF SubSeq(s, i, i + Len(sub) - 1) = sub THEN i
    ELSE FindSub(s, sub, i + 1)

\* `sub in s`
Contains(s, sub) == FindSub(s, sub, 1) # 0

\* `s.split(sep)[1]` for an s that contains sep: what lies between the first
\* occurrence of sep and the next one (or the end of s).
SplitSecond(s, sep) ==
    LET rest == SubSeq(s, FindSub(s, sep, 1) + Len(sep), Len(s))
        j == FindSub(rest, sep, 1)
    IN IF j = 0 THEN rest ELSE SubSeq(rest, 1, j - 1)

RECURSIVE DigitsValue(_, _, _)
\* The digits of s from index i on, read left to right onto acc.
DigitsValue(s, i, acc) ==
    IF i > Len(s) THEN acc ELSE DigitsValue(s, i + 1, acc * 10 + DigitVal(s[i]))

AllDigits(s) == Len(s) > 0 /\ \A i \in 1..Len(s) : IsDigit(s[i])

\* int(s) for a decimal literal with an optional sign; anything else raises
\* ValueError (ok = FALSE).  Surrounding blanks and underscores, which int()
\* also takes, do not occur in the tokens fed below.
ParseInt(s) ==
    LET signed == Len(s) > 0 /\ s[1] \in {"+", "-"}
        body == IF signed THEN Tail(s) ELSE s
    IN IF ~AllDigits(body) THEN [ok |-> FALSE, n |-> 0]
       ELSE [ok |-> TRUE,
             n |-> IF signed /\ s[1] = "-" THEN 0 - DigitsValue(body, 1, 0)
                   ELSE DigitsValue(body, 1, 0)]

\* float(s) for the literals `d+` and `d+.d` with an optional sign, in tenths
\* (22.5 is 225); anything else among the tokens fed below raises ValueError.
ParseFloat(s) ==
    LET signed == Len(s) > 0 /\ s[1] \in {"+", "-"}
        body == IF signed THEN Tail(s) ELSE s
        dot == FindSub(body, <<".">>, 1)
        whole == IF dot = 0 THEN body ELSE SubSeq(body, 1, dot - 1)
        frac == IF dot = 0 THEN <<"0">> ELSE SubSeq(body, dot + 1, Len(body))
        mag == DigitsValue(whole, 1, 0) * 10 + DigitVal(frac[1])
    IN IF ~(AllDigits(whole) /\ Len(frac) = 1 /\ AllDigits(frac))
       THEN [ok |-> FALSE, n |-> 0]
       ELSE [ok |-> TRUE, n |-> IF signed /\ s[1] = "-" THEN 0 - mag ELSE mag]

HighTemp == 25
HighAmount == 100

\* What a stream call hands back: a returned value, or a raised exception.
Returned(v) == [ok |-> TRUE, v |-> v]
RaisedValueError == [ok |-> FALSE, v |-> [exc |-> "ValueError"]]

(***************************************************************************)
(* ex1: SensorStream                                                       *)
(***************************************************************************)
NewSensorStream == [kind |-> "sensor", processed_count |-> 0,
                    total_temp |-> 0, temp_count |-> 0]

\* One iteration of process_batch's loop: the stream after it, or failed.
SensorItem(st, item) ==
    IF item.t = "str" /\ Contains(item.s, TEMP)
    THEN LET temp == ParseFloat(SplitSecond(item.s, TEMP))
         IN IF ~temp.ok THEN [ok |-> FALSE, st |-> st]
            ELSE [ok |-> TRUE, st |-> [st EXCEPT !.total_temp = @ + temp.n,
                                                 !.temp_count = @ + 1]]
    ELSE [ok |-> TRUE, st |-> st]

RECURSIVE SensorLoop(_, _, _)
SensorLoop(st, batch, i) ==
    IF i > Len(batch) THEN [ok |-> TRUE, st |-> st]
    ELSE LET r == SensorItem(st, batch[i])
         IN IF ~r.ok THEN r ELSE SensorLoop(r.st, batch, i + 1)

\* The summary string is kept as the values it interpolates; avg temp is the
\* exact quotient avg_num / avg_den (in tenths), 0 when there is no reading.
SensorProcessBatch(st, batch) ==
    LET r == SensorLoop(st, batch, 1)
        st2 == [r.st EXCEPT !.processed_count = @ + Len(batch)]
    IN IF ~r.ok THEN [st |-> r.st, ret |-> RaisedValueError]
       ELSE [st |-> st2,
             ret |-> Returned([readings |-> Len(batch),
                      avg_num |-> IF st2.temp_count > 0 THEN st2.total_temp ELSE 0,
                      avg_den |-> IF st2.temp_count > 0 THEN st2.temp_count ELSE 1])]

RECURSIVE SensorFilterLoop(_, _, _)
\* The list comprehension of filter_data, from index i on, kept items in acc.
SensorFilterLoop(batch, i, acc) ==
    IF i > Len(batch) THEN Returned([items |-> acc])
    ELSE LET item == batch[i]
         IN IF item.t = "str" /\ Contains(item.s, TEMP)
            THEN LET temp == ParseFloat(SplitSecond(item.s, TEMP))
                 IN IF ~temp.ok THEN RaisedValueError
                    ELSE SensorFilterLoop(batch, i + 1,
                            IF temp.n > HighTemp * 10 THEN Append(acc, item) ELSE acc)
            ELSE SensorFilterLoop(batch, i + 1, acc)

SensorFilterData(batch, criteria) ==
    IF criteria = "high-priority" THEN SensorFilterLoop(batch, 1, <<>>)
    ELSE Returned([items |-> batch])

(***************************************************************************)
(* ex1: TransactionStream                                                  *)
(***************************************************************************)
NewTransactionStream == [kind |-> "transaction", processed_count |-> 0, net_flow |-> 0]

TransactionItem(st, item) ==
    IF item.t # "str" THEN [ok |-> TRUE, st |-> st]
    ELSE IF Contains(item.s, BUY)
    THEN LET amount == ParseInt(SplitSecond(item.s, BUY))
         IN IF ~amount.ok THEN [ok |-> FALSE, st |-> st]
            ELSE [ok |-> TRUE, st |-> [st EXCEPT !.net_flow = @ + amount.n]]
    ELSE IF Contains(item.s, SELL)
    THEN LET amount == ParseInt(SplitSecond(item.s, SELL))
         IN IF ~amount.ok THEN [ok |-> FALSE, st |-> st]
            ELSE [ok |-> TRUE, st |-> [st EXCEPT !.net_flow = @ - amount.n]]
    ELSE [ok |-> TRUE, st |-> st]

RECURSIVE TransactionLoop(_, _, _)
TransactionLoop(st, batch, i) ==
    IF i > Len(batch) THEN [ok |-> TRUE, st |-> st]
    ELSE LET r == TransactionItem(st, batch[i])
         IN IF ~r.ok THEN r ELSE TransactionLoop(r.st, batch, i + 1)

\* (a variant that starts each batch from a net flow of 0)
TransactionProcessBatchFresh(st, batch) ==
    LET r == TransactionLoop([st EXCEPT !.net_flow = 0], batch, 1)
        st2 == [r.st EXCEPT !.processed_count = @ + Len(batch)]
    IN IF ~r.ok THEN [st |-> r.st, ret |-> RaisedValueError]
       ELSE [st |-> st2,
             ret |-> Returned([operations |-> Len(batch),
                               sign |-> IF st2.net_flow >= 0 THEN "+" ELSE "",
                               net_flow |-> st2.net_flow])]

TransactionProcessBatch(st, batch) ==
    LET r == TransactionLoop(st, batch, 1)
        st2 == [r.st EXCEPT !.processed_count = @ + Len(batch)]
    IN IF ~r.ok THEN [st |-> r.st, ret |-> RaisedValueError]
       ELSE [st |-> st2,
             ret |-> Returned([operations |-> Len(batch),
                               sign |-> IF st2.net_flow >= 0 THEN "+" ELSE "",
                               net_flow |-> st2.net_flow])]

RECURSIVE TransactionFilterLoop(_, _, _)
TransactionFilterLoop(batch, i, acc) ==
    IF i > Len(batch) THEN Returned([items |-> acc])
    ELSE LET item == batch[i]
         IN IF item.t = "str" /\ Contains(item.s, COLON)
            THEN LET amount == ParseInt(SplitSecond(item.s, COLON))
                 IN IF ~amount.ok THEN RaisedValueError
                    ELSE TransactionFilterLoop(batch, i + 1,
                            IF amount.n > HighAmount THEN Append(acc, item) ELSE acc)
            ELSE TransactionFilterLoop(batch, i + 1, acc)

TransactionFilterData(batch, criteria) ==
    IF criteria = "high-priority" THEN TransactionFilterLoop(batch, 1, <<>>)
    ELSE Returned([items |-> batch])

(***************************************************************************)
(* ex1: EventStream                                                        *)
(***************************************************************************)
NewEventStream == [kind |-> "event", processed_count |-> 0, error_count |-> 0]

EventItem(st, item) ==
    IF item.t = "str" /\ item.s = ERRORTOKEN
    THEN [st EXCEPT !.error_count = @ + 1]
    ELSE st

RECURSIVE EventLoop(_, _, _)
EventLoop(st, batch, i) ==
    IF i > Len(batch) THEN st ELSE EventLoop(EventItem(st, batch[i]), batch, i + 1)

EventProcessBatch(st, batch) ==
    LET st2 == [EventLoop(st, batch, 1) EXCEPT !.processed_count = @ + Len(batch)]
    IN [st |-> st2,
        ret |-> Returned([events |-> Len(batch), errors |-> st2.error_count])]

EventFilterData(batch, criteria) ==
    IF criteria = "high-priority"
    THEN Returned([items |-> SelectSeq(batch, LAMBDA item : item.t = "str" /\ item.s = ERRORTOKEN)])
    ELSE Returned([items |-> batch])

(***************************************************************************)
(* ex1: the calls on one stream                                            *)
(***************************************************************************)
MaxBatch == 2
MaxFed == 3

Tok(head, tl) == PyStr(head \o tl)
Temp22_5 == Tok(TEMP, <<"2", "2", ".", "5">>)
Temp26_0 == Tok(TEMP, <<"2", "6", ".", "0">>)
TempHot == Tok(TEMP, <<"h", "o", "t">>)
Humidity65 == Tok(<<"h", "u", "m", "i", "d", "i", "t", "y", ":">>, <<"6", "5">>)
Pressure1013 == Tok(<<"p", "r", "e", "s", "s", "u", "r", "e", ":">>, <<"1", "0", "1", "3">>)
Buy100 == Tok(BUY, <<"1", "0", "0">>)
Buy75 == Tok(BUY, <<"7", "5">>)
BuyX == Tok(BUY, <<"x">>)
Sell150 == Tok(SELL, <<"1", "5", "0">>)
Login == PyStr(<<"l", "o", "g", "i", "n">>)
Logout == PyStr(<<"l", "o", "g", "o", "u", "t">>)
ErrorEvent == PyStr(ERRORTOKEN)
ErrorUpper == PyStr(<<"E", "R", "R", "O", "R">>)
NotAString == PyInt(42)

SensorPool == {Temp22_5, Temp26_0, TempHot, Humidity65, NotAString}
TransactionPool == {Buy100, Sell150, BuyX, Pressure1013, NotAString}
EventPool == {ErrorEvent, Login, Logout, ErrorUpper, NotAString}
Pool(kind) == CASE kind = "sensor" -> SensorPool
                [] kind = "transaction" -> TransactionPool
                [] OTHER -> EventPool
\* The batches the scripts' demonstrations feed.
DemoBatch(kind) == CASE kind = "sensor" -> <<Temp22_5, Humidity65, Pressure1013>>
                     [] kind = "transaction" -> <<Buy100, Sell150, Buy75>>
                     [] OTHER -> <<Login, ErrorEvent, Logout>>
\* Every token a stream of this kind is fed.
Tokens(kind) == Pool(kind) \cup {DemoBatch(kind)[i] : i \in 1..Len(DemoBatch(kind))}
AllTokens == Tokens("sensor") \cup Tokens("transaction") \cup Tokens("event")

\* None, "high-priority" and some other criterion.
Criteria == {"None", "high-priority", "low"}

StreamProcessBatch(st, batch) ==
    CASE st.kind = "sensor" -> SensorProcessBatch(st, batch)
      [] st.kind = "transaction" -> TransactionProcessBatch(st, batch)
      [] OTHER -> EventProcessBatch(st, batch)

StreamFilterData(st, batch, criteria) ==
    CASE st.kind = "sensor" -> SensorFilterData(batch, criteria)
      [] st.kind = "transaction" -> TransactionFilterData(batch, criteria)
      [] OTHER -> EventFilterData(batch, criteria)

RECURSIVE Tally(_, _, _)
\* History: the count of each token, with batch's tokens from index i added.
Tally(count, batch, i) ==
    IF i > Len(batch) THEN count
    ELSE Tally([count EXCEPT ![batch[i]] = @ + 1], batch, i + 1)

\* hist.fed: tokens handed to process_batch so far; hist.clean: no
\* process_batch call has raised; hist.count: how often each token was in a
\* batch of a process_batch call that returned.
ProcessBatch(batch) ==
    /\ hist.fed + Len(batch) <= MaxFed
    /\ LET r == StreamProcessBatch(stream, batch)
       IN /\ stream' = r.st
          /\ sres' = [op |-> "process_batch", batch |-> batch, criteria |-> "None",
                      ret |-> r.ret]
          /\ hist' = [fed |-> hist.fed + Len(batch),
                      clean |-> hist.clean /\ r.ret.ok,
                      count |-> IF hist.clean /\ r.ret.ok
                                THEN Tally(hist.count, batch, 1) ELSE hist.count]
    /\ UNCHANGED <<procVars, pipeVars>>

FilterData(batch, criteria) ==
    /\ sres' = [op |-> "filter_data", batch |-> batch, criteria |-> criteria,
                ret |-> StreamFilterData(stream, batch, criteria)]
    /\ UNCHANGED <<stream, hist, procVars, pipeVars>>

InitStream ==
    /\ stream \in {NewSensorStream, NewTransactionStream, NewEventStream}
    /\ hist = [fed |-> 0, clean |-> TRUE, count |-> [tok \in Tokens(stream.kind) |-> 0]]
    /\ sres = NoCall
    /\ inp = PyNone /\ out = NoOut
    /\ pipes = <<>> /\ pipelines = <<>> /\ last = NoCall

Batches == SeqsUpTo(Pool(stream.kind), MaxBatch) \cup {DemoBatch(stream.kind)}

NextStream ==
    \/ \E batch \in Batches : ProcessBatch(batch)
    \/ \E batch \in Batches, criteria \in Criteria : FilterData(batch, criteria)

SpecStream == InitStream /\ [][NextStream]_vars

(***************************************************************************)
(* ex1: claims                                                             *)
(***************************************************************************)
\* What each token fed above means, written out by hand (temperatures in
\* tenths of a degree).
IsTempToken(tok) == tok \in {Temp22_5, Temp26_0}
TempOf(tok) == CASE tok = Temp22_5 -> 225 [] tok = Temp26_0 -> 260 [] OTHER -> 0
BuyOf(tok) == CASE tok = Buy100 -> 100 [] tok = Buy75 -> 75 [] OTHER -> 0
SellOf(tok) == CASE tok = Sell150 -> 150 [] OTHER -> 0

RECURSIVE SumOver(_, _)
\* The sum of hist.count[tok] * Weight(tok) over the tokens of S.
SumOver(S, weight) ==
    IF S = {} THEN 0
    ELSE LET tok == CHOOSE x \in S : TRUE
         IN hist.count[tok] * weight[tok] + SumOver(S \ {tok}, weight)

One == [tok \in AllTokens |-> 1]
TempOne == [tok \in AllTokens |-> IF IsTempToken(tok) THEN 1 ELSE 0]
TempSum == [tok \in AllTokens |-> TempOf(tok)]
NetOf == [tok \in AllTokens |-> BuyOf(tok) - SellOf(tok)]

\* C9: after any sequence of process_batch calls that all returned, the stream's
\* running totals are those of every token of every batch so far: net_flow is
\* the buys minus the sells, total_temp and temp_count are over the temp:
\* tokens (the reported average is their quotient, 0 without a reading),
\* error_count is the number of 'error' tokens, processed_count the number of
\* tokens.
C9_RunningTotals ==
    (stream.kind # "none" /\ hist.clean) =>
        /\ stream.processed_count = SumOver(Tokens(stream.kind), One)
        /\ stream.kind = "transaction" => stream.net_flow = SumOver(Tokens(stream.kind), NetOf)
        /\ stream.kind = "sensor" =>
              /\ stream.total_temp = SumOver(Tokens(stream.kind), TempSum)
              /\ stream.temp_count = SumOver(Tokens(stream.kind), TempOne)
              /\ sres.op = "process_batch" =>
                    IF SumOver(Tokens(stream.kind), TempOne) = 0
                    THEN sres.ret.v.avg_num = 0
                    ELSE sres.ret.v.avg_num * SumOver(Tokens(stream.kind), TempOne)
                            = SumOver(Tokens(stream.kind), TempSum) * sres.ret.v.avg_den
              /\ (sres.op = "process_batch" /\ sres.batch = DemoBatch("sensor")
                     /\ hist.fed = 3)
                    => (stream.temp_count = 1 /\ sres.ret.v.avg_num = 225
                        /\ sres.ret.v.avg_den = 1)
        /\ stream.kind = "event" => stream.error_count = SumOver({ErrorEvent}, One)
        /\ (stream.kind = "transaction" /\ sres.op = "process_batch"
               /\ sres.batch = DemoBatch("transaction")
               /\ hist.fed = Len(DemoBatch("transaction")))
              => (stream.net_flow = 25 /\ sres.ret.v.net_flow = 25)

\* A net flow carried across calls: two buys of 100 in earlier batches, then
\* the batch [sell:150].
C9_Witness ==
    /\ stream.kind = "transaction" /\ hist.clean
    /\ sres.op = "process_batch" /\ sres.batch = <<Sell150>>
    /\ hist.count[Buy100] = 2 /\ stream.net_flow = 50

\* The predicate of each variant's high-priority filter.
HighPriority(kind, tok) ==
    CASE kind = "sensor" -> IsTempToken(tok) /\ TempOf(tok) > 250
      [] kind = "transaction" -> (BuyOf(tok) > 100 \/ SellOf(tok) > 100)
      [] OTHER -> tok = ErrorEvent

RECURSIVE Selected(_, _, _)
Selected(kind, batch, i) ==
    IF i > Len(batch) THEN <<>>
    ELSE (IF HighPriority(kind, batch[i]) THEN <<batch[i]>> ELSE <<>>)
         \o Selected(kind, batch, i + 1)

\* C10: filter_data returns, in order, exactly the tokens satisfying the
\* variant's predicate when the criterion is 'high-priority' (sensor: a temp:
\* token above 25; transaction: a buy/sell token above 100; event: 'error'),
\* the batch unchanged for any other criterion, and never changes the
\* stream's accumulated state.  (Stated of the calls that return a list.)
C10_FilterIsPureSelection ==
    [][(sres'.op = "filter_data" /\ sres'.ret.ok) =>
          /\ stream' = stream
          /\ sres'.ret.v.items =
                IF sres'.criteria = "high-priority"
                THEN Selected(stream.kind, sres'.batch, 1)
                ELSE sres'.batch]_vars

(***************************************************************************)
(* ex2: str() and repr() of the values a pipeline carries                  *)
(***************************************************************************)
HasPiece(s, piece) == \E i \in 1..Len(s) : s[i] = piece

RECURSIVE Escaped(_, _, _)
\* repr's escaping of a str's pieces from index i on: a backslash before
\* every backslash and before every quote of the kind q that encloses it.
Escaped(s, q, i) ==
    IF i > Len(s) THEN <<>>
    ELSE (IF s[i] = "\\" \/ s[i] = q THEN <<"\\", s[i]>> ELSE <<s[i]>>)
         \o Escaped(s, q, i + 1)

\* repr(s) of a str: in double quotes when s holds a single quote and no
\* double quote, in single quotes otherwise.
ReprOfStr(s) ==
    LET q == IF HasPiece(s, "'") /\ ~HasPiece(s, "\"") THEN "\"" ELSE "'"
    IN <<q>> \o Escaped(s, q, 1) \o <<q>>

RECURSIVE StrOf(_)
\* str(data), as the pieces of the text.
StrOf(data) ==
    CASE data.t = "str" -> data.s
      [] data.t = "int" -> <<ToString(data.n)>>
      [] data.t = "dict" ->
            <<"{">> \o ReprOfStr(<<data.k>>) \o <<": ">>
            \o (IF data.v.t = "str" THEN ReprOfStr(data.v.s) ELSE StrOf(data.v))
            \o <<"}">>
      [] OTHER -> <<"None">>

(***************************************************************************)
(* ex2: the stages.  A stage call returns [ok, v]: the value returned, or  *)
(* (ok = FALSE) the text of the exception raised.                          *)
(***************************************************************************)
InputStageProcess(data) ==
    IF data.t = "dict" THEN [ok |-> TRUE, v |-> data]
    ELSE [ok |-> FALSE, v |-> PyStr(<<"Invalid data format">>)]

TransformStageProcess(data) ==
    IF data.t = "dict" THEN [ok |-> TRUE, v |-> data]
    ELSE [ok |-> TRUE, v |-> PyDict("data", data)]

\* str() raises on none of the values above, so the except branch is dead.
OutputStageProcess(data) == [ok |-> TRUE, v |-> PyStr(StrOf(data))]

Stages == {"InputStage", "TransformStage", "OutputStage"}

StageProcess(stage, data) ==
    CASE stage = "InputStage" -> InputStageProcess(data)
      [] stage = "TransformStage" -> TransformStageProcess(data)
      [] OTHER -> OutputStageProcess(data)

(***************************************************************************)
(* ex2: ProcessingPipeline and its three adapters                          *)
(***************************************************************************)
NewPipeline(kind, pipeline_id) ==
    [kind |-> kind, pipeline_id |-> pipeline_id, stages |-> <<>>,
     processed_count |-> 0, error_count |-> 0]

PipelineAddStage(p, stage) == [p EXCEPT !.stages = @ \o <<stage>>]

\* The outcome of the stages so far: [ok, v] as a stage call gives it.
Fed(data) == [ok |-> TRUE, v |-> data]

RECURSIVE RunStagesNoStop(_, _, _)
\* (a variant of the loop that goes on after a stage has raised, handing the
\* next stage the exception's text)
RunStagesNoStop(stages, r, i) ==
    IF i > Len(stages) THEN [ok |-> r.ok, v |-> r.v, ran |-> i - 1]
    ELSE RunStagesNoStop(stages, StageProcess(stages[i], r.v), i + 1)

RECURSIVE RunStages(_, _, _)
\* `for stage in self.stages: result = stage.process(result)` inside the try,
\* from stage i on, r being the outcome of stage i - 1: the loop ends at the
\* first stage that raises.  ran counts the stages invoked.
RunStages(stages, r, i) ==
    IF ~r.ok THEN [ok |-> FALSE, v |-> r.v, ran |-> i - 1]
    ELSE IF i > Len(stages) THEN [ok |-> TRUE, v |-> r.v, ran |-> i - 1]
    ELSE RunStages(stages, StageProcess(stages[i], r.v), i + 1)

\* f"Error: [JSON] {e}"
ErrorTag(name, e) == PyStr(<<"Error:", " ", name, " ">> \o e.s)

\* (a variant that counts a call as processed only when no stage raised)
OutcomeCountingSuccess(p, name, r) ==
    IF r.ok
    THEN [pipe |-> [p EXCEPT !.processed_count = @ + 1], ret |-> r.v,
          failed |-> FALSE, ran |-> r.ran]
    ELSE [pipe |-> [p EXCEPT !.error_count = @ + 1], ret |-> ErrorTag(name, r.v),
          failed |-> TRUE, ran |-> r.ran]

\* The body of an adapter's process, r being what the loop over the stages
\* came to: `return result`, or the except branch.  Handed back are the
\* pipeline after the call, the value returned and, for the record, whether
\* a stage raised and how many stages ran.
Outcome(p, name, r) ==
    IF r.ok
    THEN [pipe |-> [p EXCEPT !.processed_count = @ + 1], ret |-> r.v,
          failed |-> FALSE, ran |-> r.ran]
    ELSE [pipe |-> [p EXCEPT !.processed_count = @ + 1, !.error_count = @ + 1],
          ret |-> ErrorTag(name, r.v), failed |-> TRUE, ran |-> r.ran]

JSONAdapterProcess(p, data) == Outcome(p, "[JSON]", RunStages(p.stages, Fed(data), 1))

CSVAdapterProcess(p, data) == Outcome(p, "[CSV]", RunStages(p.stages, Fed(data), 1))

StreamAdapterProcess(p, data) == Outcome(p, "[STREAM]", RunStages(p.stages, Fed(data), 1))

\* pipeline.process(data), dispatched on the object's class.
PipelineProcess(p, data) ==
    CASE p.kind = "JSON" -> JSONAdapterProcess(p, data)
      [] p.kind = "CSV" -> CSVAdapterProcess(p, data)
      [] OTHER -> StreamAdapterProcess(p, data)

\* (a variant that cuts the rate off after the first decimal instead of rounding)
PipelineGetStatsTruncated(p) ==
    [t |-> "stats", processed |-> p.processed_count, errors |-> p.error_count,
     success_rate |->
        IF p.processed_count > 0
        THEN (1000 * (p.processed_count - p.error_count)) \div p.processed_count
        ELSE 0]

\* success_rate is kept in tenths of a percent, rounded to the nearest as
\* f"{success_rate:.1f}" rounds (no tie arises for a count below 16).
PipelineGetStats(p) ==
    [t |-> "stats", processed |-> p.processed_count, errors |-> p.error_count,
     success_rate |->
        IF p.processed_count > 0
        THEN (2000 * (p.processed_count - p.error_count) + p.processed_count)
                \div (2 * p.processed_count)
        ELSE 0]

(***************************************************************************)
(* ex2: NexusManager.  ps are the pipeline objects, reg is self.pipelines  *)
(* (indices into ps).                                                      *)
(***************************************************************************)
RECURSIVE FindPipelineLast(_, _, _, _)
\* (a variant of the scan that keeps going and so returns the last match)
FindPipelineLast(ps, reg, pipeline_id, i) ==
    IF i > Len(reg) THEN 0
    ELSE LET later == FindPipelineLast(ps, reg, pipeline_id, i + 1)
         IN IF later # 0 THEN later
            ELSE IF ps[reg[i]].pipeline_id = pipeline_id THEN reg[i] ELSE 0

RECURSIVE FindPipeline(_, _, _, _)
\* `for pipeline in self.pipelines: if pipeline.pipeline_id == pipeline_id`
\* from position i on: the object found, or 0.
FindPipeline(ps, reg, pipeline_id, i) ==
    IF i > Len(reg) THEN 0
    ELSE IF ps[reg[i]].pipeline_id = pipeline_id THEN reg[i]
    ELSE FindPipeline(ps, reg, pipeline_id, i + 1)

\* f"Error: Pipeline '{pipeline_id}' not found"
NotFound(pipeline_id) == PyStr(<<"Error:", " Pipeline '", pipeline_id, "' not found">>)

\* The record of one process_data call: the id asked for, the object invoked
\* (0: none), what went in, what came back, whether a stage raised or no
\* pipeline was found, and the stages that ran.
StepRecord(pipeline_id, m, data, ret, failed, ran) ==
    [id |-> pipeline_id, pipe |-> m, input |-> data, ret |-> ret,
     failed |-> failed, ran |-> ran]

\* `return pipeline.process(data)` on the object m, r being what it gave.
Delegated(ps, m, data, pipeline_id, r) ==
    [pipes |-> [ps EXCEPT ![m] = r.pipe], ret |-> r.ret,
     step |-> StepRecord(pipeline_id, m, data, r.ret, r.failed, r.ran)]

\* The two ways out of process_data, m being what the scan found.  process
\* of no adapter raises, so the [MANAGER] branch is dead.
Dispatched(ps, m, data, pipeline_id) ==
    IF m = 0
    THEN [pipes |-> ps, ret |-> NotFound(pipeline_id),
          step |-> StepRecord(pipeline_id, 0, data, NotFound(pipeline_id), TRUE, 0)]
    ELSE Delegated(ps, m, data, pipeline_id, PipelineProcess(ps[m], data))

ManagerProcessData(ps, reg, data, pipeline_id) ==
    Dispatched(ps, FindPipeline(ps, reg, pipeline_id, 1), data, pipeline_id)

\* `isinstance(result, str) and "Error:" in result`
LooksLikeError(result) == result.t = "str" /\ HasPiece(result.s, "Error:")

\* (a variant of the loop body without the check for an error)
ChainStepNoCheck(cur, r) ==
    [pipes |-> r.pipes, ret |-> r.ret, steps |-> Append(cur.steps, r.step),
     stop |-> FALSE]

\* One iteration of the loop of chain_pipelines, r being what process_data
\* gave: the result so far, and whether the loop returns here.
ChainStep(cur, r) ==
    [pipes |-> r.pipes, ret |-> r.ret, steps |-> Append(cur.steps, r.step),
     stop |-> LooksLikeError(r.ret)]

RECURSIVE ChainLoop(_, _, _, _)
\* The loop of chain_pipelines from position i on.
ChainLoop(reg, pipeline_ids, i, cur) ==
    IF cur.stop \/ i > Len(pipeline_ids) THEN cur
    ELSE ChainLoop(reg, pipeline_ids, i + 1,
            ChainStep(cur, ManagerProcessData(cur.pipes, reg, cur.ret, pipeline_ids[i])))

\* Nothing in the loop raises, so the [CHAIN] branch is dead.
ManagerChainPipelines(ps, reg, data, pipeline_ids) ==
    ChainLoop(reg, pipeline_ids, 1,
              [pipes |-> ps, ret |-> data, steps |-> <<>>, stop |-> FALSE])

RECURSIVE AllStatsFrom(_, _, _, _)
\* The dict comprehension of get_all_stats from position i on: a later
\* pipeline with the same id replaces the entry of an earlier one.
AllStatsFrom(ps, reg, i, acc) ==
    IF i > Len(reg) THEN acc
    ELSE LET p == ps[reg[i]]
             ids == DOMAIN acc \cup {p.pipeline_id}
         IN AllStatsFrom(ps, reg, i + 1,
                [id \in ids |-> IF id = p.pipeline_id THEN PipelineGetStats(p)
                                ELSE acc[id]])

ManagerGetAllStats(ps, reg) ==
    [t |-> "allstats", m |-> AllStatsFrom(ps, reg, 1, [id \in {} |-> 0])]

(***************************************************************************)
(* ex2: the calls                                                          *)
(***************************************************************************)
MaxStages == 3
MaxCount == 3
MaxReg == 2
MaxChain == 2
MaxNexusChain == 3

Kinds == {"JSON", "CSV", "STREAM"}
Ids == {"A", "B"}
DataInputs == {PyDict("records", PyInt(100)), PyInt(42), PyStr(<<"Error:", " boom">>)}

\* The record of a call that returns nothing.
Did(op) == [op |-> op, data |-> PyNone, ids |-> <<>>, ret |-> PyNone, steps |-> <<>>]

WithinCount(ps) == \A i \in 1..Len(ps) : ps[i].processed_count <= MaxCount

\* A call that went through process: the pipelines after it, and its record.
Called(op, data, ids, ps, ret, steps) ==
    /\ WithinCount(ps)
    /\ pipes' = ps
    /\ last' = [op |-> op, data |-> data, ids |-> ids, ret |-> ret, steps |-> steps]
    /\ UNCHANGED <<pipelines, procVars, streamVars>>

CalledPipeline(i, data, r) ==
    Called("process", data, <<pipes[i].pipeline_id>>, [pipes EXCEPT ![i] = r.pipe], r.ret,
           <<StepRecord(pipes[i].pipeline_id, i, data, r.ret, r.failed, r.ran)>>)

CalledManager(data, pipeline_id, r) ==
    Called("process_data", data, <<pipeline_id>>, r.pipes, r.ret, <<r.step>>)

CalledChain(data, pipeline_ids, r) ==
    Called("chain_pipelines", data, pipeline_ids, r.pipes, r.ret, r.steps)

AddStage(i, stage) ==
    /\ Len(pipes[i].stages) < MaxStages
    /\ pipes' = [pipes EXCEPT ![i] = PipelineAddStage(@, stage)]
    /\ last' = Did("add_stage")
    /\ UNCHANGED <<pipelines, procVars, streamVars>>

Process(i, data) == CalledPipeline(i, data, PipelineProcess(pipes[i], data))

GetStats(i) ==
    /\ last' = [Did("get_stats") EXCEPT !.ret = PipelineGetStats(pipes[i])]
    /\ UNCHANGED <<pipes, pipelines, procVars, streamVars>>

AddPipeline(i) ==
    /\ Len(pipelines) < MaxReg
    /\ pipelines' = pipelines \o <<i>>
    /\ last' = Did("add_pipeline")
    /\ UNCHANGED <<pipes, procVars, streamVars>>

ProcessData(data, pipeline_id) ==
    CalledManager(data, pipeline_id,
                  ManagerProcessData(pipes, pipelines, data, pipeline_id))

ChainPipelines(data, pipeline_ids) ==
    CalledChain(data, pipeline_ids,
                ManagerChainPipelines(pipes, pipelines, data, pipeline_ids))

GetAllStats ==
    /\ last' = [Did("get_all_stats") EXCEPT !.ret = ManagerGetAllStats(pipes, pipelines)]
    /\ UNCHANGED <<pipes, pipelines, procVars, streamVars>>

\* One adapter of any of the three classes, just constructed, and a manager.
InitPipe ==
    /\ \E kind \in Kinds : pipes = <<NewPipeline(kind, "A")>>
    /\ pipelines = <<>>
    /\ last = NoCall
    /\ inp = PyNone /\ out = NoOut
    /\ stream = NoStream /\ hist = NoHist /\ sres = NoCall

NextPipe ==
    \/ \E i \in 1..Len(pipes), stage \in Stages : AddStage(i, stage)
    \/ \E i \in 1..Len(pipes), data \in DataInputs : Process(i, data)
    \/ \E i \in 1..Len(pipes) : GetStats(i)
    \/ \E i \in 1..Len(pipes) : AddPipeline(i)
    \/ \E data \in DataInputs, id \in Ids : ProcessData(data, id)
    \/ \E data \in DataInputs, ids \in SeqsUpTo(Ids, MaxChain) : ChainPipelines(data, ids)
    \/ GetAllStats

SpecPipe == InitPipe /\ [][NextPipe]_vars

\* The manager of the script: a JSON adapter with the three stages, a CSV
\* adapter with two and a stream adapter with one, here with the stream
\* adapter carrying the JSON adapter's id.
InitNexus ==
    /\ pipes = <<[NewPipeline("JSON", "A") EXCEPT
                      !.stages = <<"InputStage", "TransformStage", "OutputStage">>],
                 [NewPipeline("CSV", "B") EXCEPT
                      !.stages = <<"TransformStage", "OutputStage">>],
                 [NewPipeline("STREAM", "A") EXCEPT !.stages = <<"OutputStage">>]>>
    /\ pipelines = <<>>
    /\ last = NoCall
    /\ inp = PyNone /\ out = NoOut
    /\ stream = NoStream /\ hist = NoHist /\ sres = NoCall

NextNexus ==
    \/ \E i \in 1..Len(pipes) : AddPipeline(i)
    \/ \E data \in DataInputs, id \in Ids : ProcessData(data, id)
    \/ \E data \in DataInputs, ids \in SeqsUpTo(Ids, MaxNexusChain) : ChainPipelines(data, ids)
    \/ GetAllStats

SpecNexus == InitNexus /\ [][NextNexus]_vars

(***************************************************************************)
(* ex2: claims                                                             *)
(***************************************************************************)
\* How often the call recorded in steps invoked process of object i, and how
\* often a stage of it raised.
Invoked(steps, i) == Cardinality({k \in 1..Len(steps) : steps[k].pipe = i})
Raisings(steps, i) ==
    Cardinality({k \in 1..Len(steps) : steps[k].pipe = i /\ steps[k].failed})

\* C1: in every reachable state error_count <= processed_count of every
\* pipeline, and every call (add_stage, process, get_stats, process_data,
\* chain_pipelines, ...) raises a pipeline's processed_count by exactly one
\* per invocation of its process, failed or not, and its error_count by one
\* per invocation in which a stage raised (so by at most one each).
C1_CountersPerInvocation ==
    /\ [](\A i \in 1..Len(pipes) : pipes[i].error_count <= pipes[i].processed_count)
    /\ [][\A i \in 1..Len(pipes) :
             /\ pipes'[i].processed_count
                    = pipes[i].processed_count + Invoked(last'.steps, i)
             /\ pipes'[i].error_count
                    = pipes[i].error_count + Raisings(last'.steps, i)
             /\ Raisings(last'.steps, i) <= Invoked(last'.steps, i)]_vars

\* A chain that invoked the one pipeline twice, the second time failing.
C1_Witness ==
    /\ last.op = "chain_pipelines" /\ Len(last.steps) = 2
    /\ ~last.steps[1].failed /\ last.steps[2].failed /\ last.steps[2].pipe = 1
    /\ pipes[1].processed_count = 2 /\ pipes[1].error_count = 1

RECURSIVE Composed(_, _, _)
\* sn(...s1(x)): the value after the first n stages, each having succeeded.
Composed(stages, n, x) ==
    IF n = 0 THEN x ELSE StageProcess(stages[n], Composed(stages, n - 1, x)).v

\* The first stage that fails on what the stages before it made of x, or 0.
FirstFailing(stages, x) ==
    LET fails == {n \in 1..Len(stages) :
                    ~StageProcess(stages[n], Composed(stages, n - 1, x)).ok}
    IN IF fails = {} THEN 0 ELSE CHOOSE n \in fails : \A m \in fails : n <= m

TagOf(kind) == CASE kind = "JSON" -> "[JSON]" [] kind = "CSV" -> "[CSV]"
                 [] OTHER -> "[STREAM]"

\* C2: process is a left-to-right fold with fail-fast.  When every stage
\* succeeds it returns sn(...s1(x)) and leaves error_count alone; when sk is
\* the first to fail, exactly k stages were invoked, error_count rises by one
\* and the value returned is the error tag with the adapter's name and sk's
\* message ('Error: [JSON] Invalid data format' for a non-mapping handed to
\* a JSON pipeline that starts with InputStage).
C2_FoldFailFast ==
    [][last'.op = "process" =>
          LET step == last'.steps[1]
              p == pipes[step.pipe]
              k == FirstFailing(p.stages, last'.data)
          IN /\ k = 0 =>
                  /\ last'.ret = Composed(p.stages, Len(p.stages), last'.data)
                  /\ step.ran = Len(p.stages)
                  /\ pipes'[step.pipe].error_count = p.error_count
             /\ k # 0 =>
                  /\ step.ran = k
                  /\ pipes'[step.pipe].error_count = p.error_count + 1
                  /\ last'.ret = PyStr(<<"Error:", " ", TagOf(p.kind), " ">>
                        \o StageProcess(p.stages[k], Composed(p.stages, k - 1, last'.data)).v.s)
             /\ (p.kind = "JSON" /\ Len(p.stages) > 0 /\ p.stages[1] = "InputStage"
                    /\ last'.data.t # "dict")
                  => last'.ret = PyStr(<<"Error:", " ", "[JSON]", " ", "Invalid data format">>)
    ]_vars

\* A stage after the first failed, and the stage behind it was not invoked.
C2_Witness ==
    /\ last.op = "process" /\ last.steps[1].failed
    /\ last.steps[1].ran = 2 /\ Len(pipes[1].stages) = 3

\* The earliest step of a chain that failed: a stage of its pipeline raised,
\* or its id is not registered (0: none).
FirstFailed(steps) ==
    LET failed == {k \in 1..Len(steps) : steps[k].failed}
    IN IF failed = {} THEN 0 ELSE CHOOSE k \in failed : \A m \in failed : k <= m

\* C3: when step k of chain_pipelines is the first whose process_data result
\* is an error, the call makes no step after k (no pipeline is invoked for
\* id(k+1)..idn: the counters move by the steps up to k alone) and returns
\* exactly the error value of step k.
C3_ChainShortCircuit ==
    [][last'.op = "chain_pipelines" =>
          LET k == FirstFailed(last'.steps)
          IN k # 0 =>
               /\ Len(last'.steps) = k
               /\ last'.ret = last'.steps[k].ret
               /\ \A i \in 1..Len(pipes) :
                     /\ pipes'[i].processed_count = pipes[i].processed_count
                           + Invoked(SubSeq(last'.steps, 1, k), i)
                     /\ pipes'[i].error_count = pipes[i].error_count
                           + Raisings(SubSeq(last'.steps, 1, k), i)]_vars

\* The first of two or more steps failed, and the id after it is registered.
C3_Witness ==
    /\ last.op = "chain_pipelines" /\ Len(last.ids) >= 2
    /\ Len(last.steps) = 1 /\ last.steps[1].failed /\ last.steps[1].pipe # 0
    /\ FindPipeline(pipes, pipelines, last.ids[2], 1) # 0

\* The positions of self.pipelines that hold a pipeline with this id.
Matches(pipeline_id) ==
    {k \in 1..Len(pipelines) : pipes[pipelines[k]].pipeline_id = pipeline_id}

\* C4: when every id of chain_pipelines is registered and no stage of a
\* named pipeline fails, every step is made: one process call per id in list
\* order, each fed the output of the step before it, the last one's output
\* returned.
C4_ChainThreadsEveryStep ==
    (/\ last.op = "chain_pipelines"
     /\ \A k \in 1..Len(last.ids) : Matches(last.ids[k]) # {}
     /\ FirstFailed(last.steps) = 0)
    => /\ Len(last.steps) = Len(last.ids)
       /\ \A k \in 1..Len(last.steps) :
             /\ last.steps[k].id = last.ids[k]
             /\ last.steps[k].input = IF k = 1 THEN last.data ELSE last.steps[k - 1].ret
       /\ last.ret = IF last.ids = <<>> THEN last.data
                     ELSE last.steps[Len(last.steps)].ret

\* C5: process_data hands the input to the first registered pipeline with the
\* id and returns what its process returns, changing that pipeline alone;
\* with no pipeline of that id it returns the 'not found' error and changes
\* no pipeline.
C5_DispatchFirstMatch ==
    [][last'.op = "process_data" =>
          LET id == last'.ids[1]
              m == IF Matches(id) = {} THEN 0
                   ELSE pipelines[CHOOSE k \in Matches(id) : \A j \in Matches(id) : k <= j]
          IN IF m = 0
             THEN /\ last'.ret = PyStr(<<"Error:", " Pipeline '", id, "' not found">>)
                  /\ pipes' = pipes
             ELSE /\ last'.ret = PipelineProcess(pipes[m], last'.data).ret
                  /\ pipes' = [pipes EXCEPT ![m] = PipelineProcess(pipes[m], last'.data).pipe]
                  /\ last'.steps[1].pipe = m]_vars

\* Two different pipelines registered under the id asked for.
C5_Witness ==
    /\ last.op = "process_data" /\ Len(pipelines) = 2
    /\ pipelines[1] # pipelines[2]
    /\ Matches(last.ids[1]) = {1, 2}
    /\ last.steps[1].pipe = pipelines[1]

(***************************************************************************)
(* get_stats                                                               *)
(***************************************************************************)
\* The calls that go through a pipeline's process.
ProcessOps == {"process", "process_data", "chain_pipelines"}

\* The counters of every pipeline object.
Counters(ps) == [i \in 1..Len(ps) |-> <<ps[i].processed_count, ps[i].error_count>>]

\* rate, in tenths of a percent, is the nearest tenth to ok / total * 100.
NearestTenth(rate, ok, total) ==
    LET d == rate * total - 1000 * ok
    IN (IF d < 0 THEN 0 - d ELSE d) * 2 <= total

\* C11 (as stated): the record get_stats returns reports processed =
\* processed_count, errors = error_count and success_rate = exactly
\* (processed - errors) / processed * 100 when processed > 0, else 0.
C11_StatsExactRate ==
    last.op = "get_stats" =>
        /\ last.ret.processed = pipes[1].processed_count
        /\ last.ret.errors = pipes[1].error_count
        /\ IF pipes[1].processed_count > 0
           THEN last.ret.success_rate * pipes[1].processed_count
                   = 1000 * (pipes[1].processed_count - pipes[1].error_count)
           ELSE last.ret.success_rate = 0

\* C11 (amended): get_stats is a read-only query: the call leaves stages,
\* processed_count and error_count unchanged, no call other than a process
\* call changes the counters, two calls in a row return identical records, and
\* the record reports processed = processed_count, errors = error_count and
\* success_rate = (processed - errors) / processed * 100 rounded to one decimal
\* place when processed > 0, else 0.0.
C11_GetStatsReadOnly ==
    [][ /\ last'.op = "get_stats" =>
              /\ pipes' = pipes
              /\ last'.ret.processed = pipes[1].processed_count
              /\ last'.ret.errors = pipes[1].error_count
              /\ IF pipes[1].processed_count > 0
                 THEN NearestTenth(last'.ret.success_rate,
                                   pipes[1].processed_count - pipes[1].error_count,
                                   pipes[1].processed_count)
                 ELSE last'.ret.success_rate = 0
              /\ last.op = "get_stats" => last'.ret = last.ret
        /\ last'.op \notin ProcessOps => Counters(pipes') = Counters(pipes)
      ]_vars

\* A query after three invocations of which one failed: 66.7%.
C11_Witness ==
    /\ last.op = "get_stats"
    /\ last.ret.processed = 3 /\ last.ret.errors = 1
    /\ last.ret.success_rate = 667

(***************************************************************************)
(* get_all_stats                                                           *)
(***************************************************************************)
\* The pipeline objects registered with add_pipeline.
Registered == {pipelines[k] : k \in 1..Len(pipelines)}

RECURSIVE SumProcessed(_, _)
\* The processed counts of the entries of a stats mapping, summed.
SumProcessed(m, ids) ==
    IF ids = {} THEN 0
    ELSE LET id == CHOOSE x \in ids : TRUE
         IN m[id].processed + SumProcessed(m, ids \ {id})

RECURSIVE SumInvocations(_, _)
\* The process invocations received by the pipeline objects from i on.
SumInvocations(ps, i) ==
    IF i > Len(ps) THEN 0 ELSE ps[i].processed_count + SumInvocations(ps, i + 1)

\* C12: get_all_stats returns a mapping with one entry per registered
\* pipeline, each under the pipeline's identifier and holding that pipeline's
\* own get_stats record; the record under an identifier is that of the
\* pipeline process_data dispatches to for it; and the processed counts of the
\* mapping sum to the number of process invocations made through the manager
\* (here every invocation is made through the manager).
C12_AllStatsPerPipeline ==
    last.op = "get_all_stats" =>
        /\ Cardinality(DOMAIN last.ret.m) = Cardinality(Registered)
        /\ \A i \in Registered :
              /\ pipes[i].pipeline_id \in DOMAIN last.ret.m
              /\ last.ret.m[pipes[i].pipeline_id] = PipelineGetStats(pipes[i])
        /\ \A id \in DOMAIN last.ret.m :
              last.ret.m[id] = PipelineGetStats(pipes[FindPipeline(pipes, pipelines, id, 1)])
        /\ SumProcessed(last.ret.m, DOMAIN last.ret.m) = SumInvocations(pipes, 1)

=============================================================================
